---- MODULE Spec2Model ----
(***************************************************************************)
(* FastRouter Python SDK: the client (fastrouter/client.py, FastRouter),   *)
(* the completion operation (fastrouter/chat.py, Completions.create) and   *)
(* the response models (fastrouter/response_models.py).                    *)
(*                                                                         *)
(* Spec: a behaviour is one request.  The transport answers (or fails),    *)
(* _make_request classifies the answer, and, when the raw response of a    *)
(* streaming request is returned, a StreamingChatCompletion wraps it and a *)
(* consumer drives it with __iter__ and __next__.                          *)
(*                                                                         *)
(* ClientSpec: a behaviour is the life of one client.  It is constructed,  *)
(* and create and health are called on it; each call builds its request,   *)
(* hands it to the transport and turns the answer into its result.         *)
(***************************************************************************)
EXTENDS Integers, Sequences, FiniteSets, TLC

(***************************************************************************)
(* Bounds of the model.                                                    *)
(***************************************************************************)
\* longest line source (number of lines the transport delivers)
MaxLines == 3
\* most __iter__ calls a consumer makes on one session
MaxIters == 2
\* most calls of create and health on one client
MaxCalls == 2

(***************************************************************************)
(* Python values.  A JSON value is a record tagged with its Python type.   *)
(***************************************************************************)
JStr(s) == [t |-> "str", s |-> s]
JNum(n) == [t |-> "int", n |-> n]
JBool(b) == [t |-> "bool", b |-> b]
JNone == [t |-> "NoneType"]
JList(l) == [t |-> "list", l |-> l]
JDict(d) == [t |-> "dict", d |-> d]

EmptyDict == JDict([k \in {} |-> JNone])
Dict1(k, v) == JDict([x \in {k} |-> v])
Dict2(k1, v1, k2, v2) == JDict([x \in {k1, k2} |-> IF x = k1 THEN v1 ELSE v2])

\* isinstance(v, dict), isinstance(v, str), isinstance(v, list)
IsDict(v) == v.t = "dict"
IsStr(v) == v.t = "str"
IsList(v) == v.t = "list"

\* k in d
HasKey(d, k) == k \in DOMAIN d.d

\* d.get(k, default)
Get(d, k, default) == IF HasKey(d, k) THEN d.d[k] ELSE default

\* Python truth value of v ("if v")
Truthy(v) ==
  CASE v.t = "str" -> v.s # ""
    [] v.t = "int" -> v.n # 0
    [] v.t = "bool" -> v.b
    [] v.t = "NoneType" -> FALSE
    [] v.t = "list" -> Len(v.l) > 0
    [] v.t = "dict" -> DOMAIN v.d # {}

Digit(d) ==
  CASE d = 0 -> "0" [] d = 1 -> "1" [] d = 2 -> "2" [] d = 3 -> "3" [] d = 4 -> "4"
    [] d = 5 -> "5" [] d = 6 -> "6" [] d = 7 -> "7" [] d = 8 -> "8" [] d = 9 -> "9"

RECURSIVE IntStr(_)
\* str(n) of a natural number
IntStr(n) == IF n < 10 THEN Digit(n) ELSE IntStr(n \div 10) \o Digit(n % 10)

\* repr of a scalar inside a list
ScalarRepr(v) ==
  CASE v.t = "int" -> IntStr(v.n)
    [] v.t = "bool" -> (IF v.b THEN "True" ELSE "False")
    [] v.t = "NoneType" -> "None"
    [] v.t = "str" -> "'" \o v.s \o "'"
    [] OTHER -> "..."

RECURSIVE JoinRepr(_)
JoinRepr(l) ==
  IF Len(l) = 0 THEN ""
  ELSE IF Len(l) = 1 THEN ScalarRepr(l[1])
  ELSE ScalarRepr(l[1]) \o ", " \o JoinRepr(Tail(l))

\* str(v)
PyStr(v) ==
  CASE v.t = "str" -> v.s
    [] v.t = "int" -> IntStr(v.n)
    [] v.t = "bool" -> (IF v.b THEN "True" ELSE "False")
    [] v.t = "NoneType" -> "None"
    [] v.t = "list" -> "[" \o JoinRepr(v.l) \o "]"
    [] v.t = "dict" -> (IF DOMAIN v.d = {} THEN "{}" ELSE "{...}")

(***************************************************************************)
(* The transport's answer: a status code and a body text.  response.json() *)
(* is given by a table over the body texts of the model.                   *)
(***************************************************************************)
Statuses == {200, 399, 400, 401, 402, 500}

ExpectingValue == "Expecting value: line 1 column 1 (char 0)"

\* completion payloads with one and with two choices
OneChoiceBody ==
  "{\"choices\": [{\"index\": 0, \"message\": {\"role\": \"assistant\", \"content\": \"Hello\"}}]}"
TwoChoiceBody ==
  "{\"id\": \"cmpl-2\", \"choices\": [{\"index\": 0, \"message\": {\"content\": \"A\"}}, {\"index\": 1, \"message\": {\"content\": \"B\"}}]}"

HelloChoice ==
  Dict2("index", JNum(0),
        "message", Dict2("role", JStr("assistant"), "content", JStr("Hello")))
ChoiceA == Dict2("index", JNum(0), "message", Dict1("content", JStr("A")))
ChoiceB == Dict2("index", JNum(1), "message", Dict1("content", JStr("B")))

BodyTable ==
  << <<"Bad Gateway", JNone>>,
     <<"", JNone>>,
     <<"{\"error\": {\"message\": \"Bad request\"}}",
       Dict1("error", Dict1("message", JStr("Bad request")))>>,
     <<"{\"error\": {\"code\": 7}}", Dict1("error", Dict1("code", JNum(7)))>>,
     <<"{\"error\": \"oops\"}", Dict1("error", JStr("oops"))>>,
     <<"{\"error\": \"\"}", Dict1("error", JStr(""))>>,
     <<"{\"error\": 0}", Dict1("error", JNum(0))>>,
     <<"{\"error\": 503}", Dict1("error", JNum(503))>>,
     <<"{\"error\": false}", Dict1("error", JBool(FALSE))>>,
     <<"{\"error\": true}", Dict1("error", JBool(TRUE))>>,
     <<"{\"error\": null}", Dict1("error", JNone)>>,
     <<"{\"error\": []}", Dict1("error", JList(<<>>))>>,
     <<"{\"error\": [1, 2]}", Dict1("error", JList(<<JNum(1), JNum(2)>>))>>,
     <<"{\"status\": \"healthy\"}", Dict1("status", JStr("healthy"))>>,
     <<"{}", EmptyDict>>,
     <<"[1]", JList(<<JNum(1)>>)>>,
     <<"\"ok\"", JStr("ok")>>,
     <<"5", JNum(5)>>,
     <<OneChoiceBody, Dict1("choices", JList(<<HelloChoice>>))>>,
     <<TwoChoiceBody, Dict2("id", JStr("cmpl-2"), "choices", JList(<<ChoiceA, ChoiceB>>))>>,
     <<"{\"choices\": []}", Dict1("choices", JList(<<>>))>>,
     <<"{\"choices\": null}", Dict1("choices", JNone)>>,
     <<"{\"content\": \"up\"}", Dict1("content", JStr("up"))>> >>

\* the body texts that are not JSON
NotJson == {"Bad Gateway", ""}

Bodies == {BodyTable[i][1] : i \in 1..Len(BodyTable)}

BodyIndex(text) == CHOOSE i \in 1..Len(BodyTable) : BodyTable[i][1] = text

\* response.json(): the parsed value, or the ValueError it raises
response_json(text) ==
  IF text \in NotJson
  THEN [ok |-> FALSE, err |-> ExpectingValue]
  ELSE [ok |-> TRUE, v |-> BodyTable[BodyIndex(text)][2]]

(***************************************************************************)
(* FastRouter._make_request                                                *)
(***************************************************************************)
UnknownAPIError == JStr("Unknown API error")

AuthenticationError(message) == [kind |-> "AuthenticationError", message |-> message]
APIError(message, status_code) ==
  [kind |-> "APIError", message |-> message, status_code |-> status_code]
FastRouterError(message) == [kind |-> "FastRouterError", message |-> message]
Return(data) == [kind |-> "return", data |-> data]
RawResponse == [kind |-> "response"]

\* the message taken from an `error` value
error_message(error_obj) ==
  IF IsDict(error_obj) THEN Get(error_obj, "message", UnknownAPIError)
  ELSE IF IsStr(error_obj) THEN error_obj
  ELSE IF Truthy(error_obj) THEN JStr(PyStr(error_obj))
  ELSE UnknownAPIError

\* a variant that leaves the body text out of the message
parse_error_message_no_body(status_code, text, err) ==
  JStr("HTTP " \o IntStr(status_code) \o " (Parse error: " \o err \o ")")

\* the message built when response.json() raises on a status >= 400
parse_error_message(status_code, text, err) ==
  JStr("HTTP " \o IntStr(status_code) \o ": " \o text \o " (Parse error: " \o err \o ")")

\* a variant that raises the APIError without its status code
api_error_drops_status(status_code, text) ==
  LET parsed == response_json(text) IN
  APIError(
    IF ~parsed.ok THEN parse_error_message(status_code, text, parsed.err)
    ELSE IF IsDict(parsed.v) THEN error_message(Get(parsed.v, "error", EmptyDict))
    ELSE JStr(PyStr(parsed.v)),
    0)

\* status >= 400 and not 401: the APIError raised
api_error(status_code, text) ==
  LET parsed == response_json(text) IN
  APIError(
    IF ~parsed.ok THEN parse_error_message(status_code, text, parsed.err)
    ELSE IF IsDict(parsed.v) THEN error_message(Get(parsed.v, "error", EmptyDict))
    ELSE JStr(PyStr(parsed.v)),
    status_code)

\* a variant that trusts the status and returns every dictionary
decode_success_trusts_status(text) ==
  LET parsed == response_json(text) IN
  IF ~parsed.ok
  THEN Return(Dict2("content", JStr(text), "parse_error", JStr(parsed.err)))
  ELSE IF IsDict(parsed.v) THEN Return(parsed.v)
  ELSE Return(Dict1("data", parsed.v))

\* a variant that wraps a body that is not JSON under `content` alone
decode_success_content_only(text) ==
  LET parsed == response_json(text) IN
  IF ~parsed.ok THEN Return(Dict1("content", JStr(text)))
  ELSE IF IsDict(parsed.v)
  THEN IF HasKey(parsed.v, "error")
       THEN APIError(error_message(Get(parsed.v, "error", EmptyDict)), 200)
       ELSE Return(parsed.v)
  ELSE Return(Dict1("data", parsed.v))

\* status < 400, not streaming: the dictionary returned or the APIError raised
decode_success(text) ==
  LET parsed == response_json(text) IN
  IF ~parsed.ok
  THEN Return(Dict2("content", JStr(text), "parse_error", JStr(parsed.err)))
  ELSE IF IsDict(parsed.v)
  THEN IF HasKey(parsed.v, "error")
       THEN APIError(error_message(Get(parsed.v, "error", EmptyDict)), 200)
       ELSE Return(parsed.v)
  ELSE Return(Dict1("data", parsed.v))

\* the statuses of the answers whose body is streamed
StreamedStatuses == {s \in Statuses : s = 200}

TransportFaults == {"Timeout", "ConnectionError", "RequestException"}

transport_error(fault) ==
  CASE fault = "Timeout" -> FastRouterError(JStr("Request timed out"))
    [] fault = "ConnectionError" -> FastRouterError(JStr("Failed to connect to FastRouter API"))
    [] OTHER -> FastRouterError(JStr("Request failed: " \o fault))

AuthenticationFailed == JStr("Invalid API key or authentication failed")

\* a variant that tests status >= 400 before it tests 401
make_request_401_after_400(fault, status_code, text, stream) ==
  IF fault # "none" THEN transport_error(fault)
  ELSE IF status_code >= 400 THEN api_error(status_code, text)
  ELSE IF status_code = 401 THEN AuthenticationError(AuthenticationFailed)
  ELSE IF stream THEN RawResponse
  ELSE decode_success(text)

\* the outcome of _make_request for the transport's answer
make_request(fault, status_code, text, stream) ==
  IF fault # "none" THEN transport_error(fault)
  ELSE IF status_code = 401 THEN AuthenticationError(AuthenticationFailed)
  ELSE IF status_code >= 400 THEN api_error(status_code, text)
  ELSE IF stream THEN RawResponse
  ELSE decode_success(text)

(***************************************************************************)
(* FastRouter.__init__ and FastRouter._get_headers                         *)
(***************************************************************************)
\* the api_key argument of the constructor: absent, empty or a key
KeyArguments == {JNone, JStr(""), JStr("sk-arg")}

\* os.getenv('FASTROUTER_API_KEY'): unset, or the key of the environment
Environments == {JNone, JStr("sk-env")}

\* self.api_key = api_key or self._get_api_key_from_env()
resolve_api_key(api_key, env) == IF Truthy(api_key) THEN api_key ELSE env

ContentTypeOnly == [h \in {"Content-Type"} |-> "application/json"]

\* a variant that writes the Authorization header whatever the key is
get_headers_always_bearer(key) ==
  [h \in {"Content-Type", "Authorization"} |->
     IF h = "Content-Type" THEN "application/json" ELSE "Bearer " \o PyStr(key)]

\* _get_headers(): the headers for the client's key
get_headers(key) ==
  IF Truthy(key)
  THEN [h \in {"Content-Type", "Authorization"} |->
          IF h = "Content-Type" THEN "application/json" ELSE "Bearer " \o PyStr(key)]
  ELSE ContentTypeOnly

(***************************************************************************)
(* Completions.create: the payload and the path                            *)
(***************************************************************************)
RequiredNames == {"model", "messages", "stream"}

OptionalNames ==
  {"max_tokens", "provider", "temperature", "top_p", "frequency_penalty",
   "presence_penalty", "stop"}

\* the value a caller gives an optional parameter it supplies; 0.0 is
\* written 0
SuppliedValue(name) ==
  CASE name = "max_tokens" -> JNum(20)
    [] name = "provider" -> Dict1("only", JList(<<JStr("openai")>>))
    [] name = "temperature" -> JNum(0)
    [] name = "top_p" -> JNum(1)
    [] name = "frequency_penalty" -> JNum(0)
    [] name = "presence_penalty" -> JNum(2)
    [] name = "stop" -> JList(<<>>)

\* the parameters of a call of create, bound: those the caller leaves out
\* have their default, None
Arguments(supplied, stream) ==
  [k \in RequiredNames \cup OptionalNames |->
     CASE k = "model" -> JStr("openai/gpt-4")
       [] k = "messages" -> JList(<<Dict2("role", JStr("user"), "content", JStr("Hello"))>>)
       [] k = "stream" -> JBool(stream)
       [] OTHER -> IF k \in supplied THEN SuppliedValue(k) ELSE JNone]

\* **kwargs: the keyword arguments that match no parameter of create
NoKwargs == [k \in {} |-> JNone]
UserKwargs == [k \in {"user"} |-> JStr("u-1")]
SeedKwargs == [k \in {"seed", "n"} |-> IF k = "seed" THEN JNum(0) ELSE JNum(2)]
Kwargs == {NoKwargs, UserKwargs, SeedKwargs}

\* a variant that adds an optional parameter when its value is true
build_payload_truthy(args, kwargs) ==
  LET named == RequiredNames \cup {k \in OptionalNames : Truthy(args[k])}
  IN JDict([k \in named \cup DOMAIN kwargs |->
              IF k \in DOMAIN kwargs THEN kwargs[k] ELSE args[k]])

\* a variant that leaves payload.update(kwargs) out
build_payload_without_kwargs(args, kwargs) ==
  LET named == RequiredNames \cup {k \in OptionalNames : args[k].t # "NoneType"}
  IN JDict([k \in named |-> args[k]])

\* the payload: the three fixed keys, each optional that is not None, then
\* payload.update(kwargs)
build_payload(args, kwargs) ==
  LET named == RequiredNames \cup {k \in OptionalNames : args[k].t # "NoneType"}
  IN JDict([k \in named \cup DOMAIN kwargs |->
              IF k \in DOMAIN kwargs THEN kwargs[k] ELSE args[k]])

\* is_streaming = payload.get('stream', False), as `if is_streaming` takes it
is_streaming(payload) == Truthy(Get(payload, "stream", JBool(FALSE)))

\* the arguments of the one requests.request call of _make_request
Request(method, endpoint, key, data, stream) ==
  [method |-> method, endpoint |-> endpoint, headers |-> get_headers(key),
   json |-> IF Truthy(data) THEN data ELSE JNone, stream |-> stream]

\* the call of _make_request that create makes
create_request(key, payload) ==
  Request("POST", "/api/v1/chat/completions", key, payload, is_streaming(payload))

\* the call of _make_request that health makes
health_request(key) == Request("GET", "/health", key, JNone, FALSE)

(***************************************************************************)
(* ChatCompletion(data), with Choice and Message, and HealthResponse(data) *)
(***************************************************************************)
Message(data) ==
  [role |-> Get(data, "role", JStr("")), content |-> Get(data, "content", JStr(""))]

Choice(data) ==
  [index |-> Get(data, "index", JNum(0)),
   message |-> Message(Get(data, "message", EmptyDict)),
   finish_reason |-> Get(data, "finish_reason", JNone)]

\* Choice(data) raises: data, or its message, has no .get
ChoiceRaises(data) == ~IsDict(data) \/ ~IsDict(Get(data, "message", EmptyDict))

\* `for choice in choices_data` raises TypeError: the value is not iterable
NotIterable(v) == v.t \in {"NoneType", "int", "bool"}

TypeError == [kind |-> "TypeError"]
AttributeError == [kind |-> "AttributeError"]

\* ChatCompletion(data): the object, or the exception its constructor raises
ChatCompletion(data) ==
  LET got == Get(data, "choices", JList(<<>>))
      usage_data == Get(data, "usage", EmptyDict)
  IN IF NotIterable(got) THEN TypeError
     ELSE IF ~IsList(got)
     THEN (IF Truthy(got) THEN AttributeError
           ELSE IF Truthy(usage_data) /\ ~IsDict(usage_data) THEN AttributeError
           ELSE [kind |-> "ChatCompletion", data |-> data, choices |-> <<>>])
     ELSE IF \E i \in 1..Len(got.l) : ChoiceRaises(got.l[i]) THEN AttributeError
     ELSE IF Truthy(usage_data) /\ ~IsDict(usage_data) THEN AttributeError
     ELSE [kind |-> "ChatCompletion", data |-> data,
           choices |-> [i \in 1..Len(got.l) |-> Choice(got.l[i])]]

Unknown == JStr("Unknown")

\* HealthResponse(data): the object, with its _data and its status
HealthResponse(data) ==
  IF IsStr(data)
  THEN [kind |-> "HealthResponse", data |-> Dict1("status", data), status |-> data]
  ELSE IF ~IsDict(data) THEN AttributeError
  ELSE [kind |-> "HealthResponse", data |-> data,
        status |-> Get(data, "status", Get(data, "content", Unknown))]

\* what create gives its caller for the transport's answer
create_result(request, fault, status_code, text) ==
  LET made == make_request(fault, status_code, text, request.stream) IN
  IF made.kind = "response"
  THEN [kind |-> "StreamingChatCompletion",
        response |-> [status_code |-> status_code, text |-> text]]
  ELSE IF made.kind = "return" THEN ChatCompletion(made.data)
  ELSE made

\* what health gives its caller for the transport's answer
health_result(request, fault, status_code, text) ==
  LET made == make_request(fault, status_code, text, request.stream) IN
  IF made.kind = "return" THEN HealthResponse(made.data) ELSE made

\* a variant that sends the request again when it timed out
retry_after_timeout(fault, status_code) == fault = "Timeout"

\* _make_request calls requests.request again after the answer or the
\* failure of its call: never, it returns or raises
retry_after(fault, status_code) == FALSE

(***************************************************************************)
(* Server-sent-event lines.  A line is a sequence of tokens: one blank     *)
(* (" "), the field name with its colon ("data:"), or a run of other       *)
(* characters.  "data: " is therefore the two tokens "data:", " ".         *)
(***************************************************************************)
ChunkHi == "{\"choices\":[{\"delta\":{\"content\":\"Hi\"}}]}"
ChunkEnd == "{\"id\":\"c2\",\"choices\":[]}"
NotJsonPayload == "{not json"
NumberPayload == "5"
ChunkSecond == "{\"choices\":[{\"delta\":{\"content\":\"  \"}},{\"delta\":{\"content\":\"B\"}}]}"
ChunkNullContent == "{\"choices\":[{\"delta\":{\"content\":null}}]}"
ChunkError == "{\"error\": \"oops\"}"
StringPayload == "\"abc\""
ArrayPayload == "[1]"
TruePayload == "true"
NullPayload == "null"
DONE == "[DONE]"

BlankLine == <<>>
HiLine == <<"data:", " ", ChunkHi>>
EndLine == <<" ", "data:", " ", ChunkEnd>>
SentinelLine == <<"data:", " ", " ", DONE, " ">>
NoSpaceLine == <<"data:", DONE>>
MalformedLine == <<"data:", " ", NotJsonPayload>>
NumberLine == <<"data:", " ", NumberPayload>>

\* a chunk whose first choice is blank and whose second choice has content,
\* a chunk whose content is null, and a `data: ` event that reports an error
SecondLine == <<"data:", " ", ChunkSecond>>
NullContentLine == <<"data:", " ", ChunkNullContent>>
ErrorEventLine == <<"data:", " ", ChunkError>>
\* a body that is one plain JSON object, not framed as an event
ErrorBodyLine == <<ChunkError>>
\* payloads that are valid JSON and no object
StringLine == <<"data:", " ", StringPayload>>
ArrayLine == <<"data:", " ", ArrayPayload>>
TrueLine == <<"data:", " ", TruePayload>>
NullLine == <<"data:", " ", NullPayload>>

Lines == {BlankLine, HiLine, EndLine, SentinelLine, NoSpaceLine, MalformedLine, NumberLine}

\* the line sources: every sequence of at most MaxLines lines
Sources == UNION {[1..n -> Lines] : n \in 0..MaxLines}

SpecialLines ==
  {SecondLine, NullContentLine, ErrorEventLine, ErrorBodyLine, StringLine,
   ArrayLine, TrueLine, NullLine}

\* further line sources: each of the special lines alone, before a chunk
\* line and after one
SpecialSources ==
  {<<l>> : l \in SpecialLines} \cup {<<l, HiLine>> : l \in SpecialLines}
    \cup {<<HiLine, l>> : l \in SpecialLines}

RECURSIVE lstrip(_)
lstrip(s) == IF Len(s) > 0 /\ Head(s) = " " THEN lstrip(Tail(s)) ELSE s

RECURSIVE rstrip(_)
rstrip(s) == IF Len(s) > 0 /\ s[Len(s)] = " " THEN rstrip(SubSeq(s, 1, Len(s) - 1)) ELSE s

\* str.strip()
strip(s) == rstrip(lstrip(s))

\* line.startswith('data: ')
startswith_data(line) == Len(line) >= 2 /\ line[1] = "data:" /\ line[2] = " "

\* line[6:], for a line that starts with 'data: '
remove_prefix(line) == SubSeq(line, 3, Len(line))

\* json.loads(data_part): the value, or JSONDecodeError
json_loads(data_part) ==
  LET s == strip(data_part) IN
  IF Len(s) # 1 THEN [ok |-> FALSE]
  ELSE CASE s[1] = ChunkHi ->
              [ok |-> TRUE,
               v |-> Dict1("choices",
                       JList(<<Dict1("delta", Dict1("content", JStr("Hi")))>>))]
         [] s[1] = ChunkEnd ->
              [ok |-> TRUE, v |-> Dict2("id", JStr("c2"), "choices", JList(<<>>))]
         [] s[1] = NumberPayload -> [ok |-> TRUE, v |-> JNum(5)]
         [] s[1] = ChunkSecond ->
              [ok |-> TRUE,
               v |-> Dict1("choices",
                       JList(<<Dict1("delta", Dict1("content", JStr("  "))),
                               Dict1("delta", Dict1("content", JStr("B")))>>))]
         [] s[1] = ChunkNullContent ->
              [ok |-> TRUE,
               v |-> Dict1("choices", JList(<<Dict1("delta", Dict1("content", JNone))>>))]
         [] s[1] = ChunkError -> [ok |-> TRUE, v |-> Dict1("error", JStr("oops"))]
         [] s[1] = StringPayload -> [ok |-> TRUE, v |-> JStr("abc")]
         [] s[1] = ArrayPayload -> [ok |-> TRUE, v |-> JList(<<JNum(1)>>)]
         [] s[1] = TruePayload -> [ok |-> TRUE, v |-> JBool(TRUE)]
         [] s[1] = NullPayload -> [ok |-> TRUE, v |-> JNone]
         [] OTHER -> [ok |-> FALSE]

(***************************************************************************)
(* ChatCompletionChunk(data), with ChoiceChunk and Delta: the chunk, or    *)
(* the AttributeError of calling .get on a value that is no dict.          *)
(***************************************************************************)
Delta(data) == [role |-> Get(data, "role", JNone), content |-> Get(data, "content", JStr(""))]

ChoiceChunk(data) ==
  [index |-> Get(data, "index", JNum(0)),
   delta |-> Delta(Get(data, "delta", EmptyDict)),
   finish_reason |-> Get(data, "finish_reason", JNone)]

\* ChoiceChunk(data) raises: data, or its delta, has no .get
ChoiceChunkRaises(data) == ~IsDict(data) \/ ~IsDict(Get(data, "delta", EmptyDict))

ChatCompletionChunk(data) ==
  IF ~IsDict(data) THEN [ok |-> FALSE]
  ELSE LET got == Get(data, "choices", JList(<<>>))
           choices_data == IF IsList(got) THEN got.l ELSE <<>>
           usage_data == Get(data, "usage", EmptyDict)
       IN IF \E i \in 1..Len(choices_data) : ChoiceChunkRaises(choices_data[i])
          THEN [ok |-> FALSE]
          ELSE IF Truthy(usage_data) /\ ~IsDict(usage_data) THEN [ok |-> FALSE]
          ELSE [ok |-> TRUE,
                chunk |-> [data |-> data,
                           choices |-> [i \in 1..Len(choices_data) |->
                                          ChoiceChunk(choices_data[i])]]]

NoChunk == [data |-> JNone, choices |-> <<>>]

\* str.strip() of a content string
content_strip(s) ==
  CASE s = " " -> ""
    [] s = "  " -> ""
    [] s = " B " -> "B"
    [] OTHER -> s

\* a choice's delta content is a string that is not blank
HasText(choice) ==
  IsStr(choice.delta.content) /\ content_strip(choice.delta.content.s) # ""

\* a variant that looks at every choice
has_content_any_choice(chunk) ==
  \E i \in 1..Len(chunk.choices) : HasText(chunk.choices[i])

\* ChatCompletionChunk.has_content
has_content(chunk) ==
  IF Len(chunk.choices) = 0 THEN FALSE
  ELSE LET c == chunk.choices[1].delta.content IN
       c.t # "NoneType" /\ content_strip(c.s) # ""

\* ChatCompletionChunk.content
content(chunk) == IF has_content(chunk) THEN chunk.choices[1].delta.content ELSE JStr("")

(***************************************************************************)
(* StreamingChatCompletion._parse_stream: the body of the loop for one     *)
(* line, and the run of the generator from the response's read position to *)
(* its next yield, its end or its exception.                               *)
(***************************************************************************)
\* a variant that compares the payload with the sentinel without trimming it
parse_line_untrimmed_sentinel(raw) ==
  IF Len(raw) = 0 THEN [kind |-> "skip", chunk |-> NoChunk]
  ELSE LET line == strip(raw) IN
    IF ~startswith_data(line) THEN [kind |-> "skip", chunk |-> NoChunk]
    ELSE LET data_part == remove_prefix(line) IN
      IF data_part = <<DONE>> THEN [kind |-> "sentinel", chunk |-> NoChunk]
      ELSE LET chunk_data == json_loads(data_part) IN
        IF ~chunk_data.ok THEN [kind |-> "skip", chunk |-> NoChunk]
        ELSE LET made == ChatCompletionChunk(chunk_data.v) IN
          IF made.ok THEN [kind |-> "yield", chunk |-> made.chunk]
          ELSE [kind |-> "raise", chunk |-> NoChunk]

\* a variant that lets the JSONDecodeError of a malformed payload escape
parse_line_malformed_raises(raw) ==
  IF Len(raw) = 0 THEN [kind |-> "skip", chunk |-> NoChunk]
  ELSE LET line == strip(raw) IN
    IF ~startswith_data(line) THEN [kind |-> "skip", chunk |-> NoChunk]
    ELSE LET data_part == remove_prefix(line) IN
      IF strip(data_part) = <<DONE>> THEN [kind |-> "sentinel", chunk |-> NoChunk]
      ELSE LET chunk_data == json_loads(data_part) IN
        IF ~chunk_data.ok THEN [kind |-> "raise", chunk |-> NoChunk]
        ELSE LET made == ChatCompletionChunk(chunk_data.v) IN
          IF made.ok THEN [kind |-> "yield", chunk |-> made.chunk]
          ELSE [kind |-> "raise", chunk |-> NoChunk]

\* a variant that takes a line without the prefix for a payload
parse_line_lenient_prefix(raw) ==
  IF Len(raw) = 0 THEN [kind |-> "skip", chunk |-> NoChunk]
  ELSE LET line == strip(raw) IN
    LET data_part == IF startswith_data(line) THEN remove_prefix(line) ELSE line IN
      IF strip(data_part) = <<DONE>> THEN [kind |-> "sentinel", chunk |-> NoChunk]
      ELSE LET chunk_data == json_loads(data_part) IN
        IF ~chunk_data.ok THEN [kind |-> "skip", chunk |-> NoChunk]
        ELSE LET made == ChatCompletionChunk(chunk_data.v) IN
          IF made.ok THEN [kind |-> "yield", chunk |-> made.chunk]
          ELSE [kind |-> "raise", chunk |-> NoChunk]

\* a variant that skips a payload that does not decode into a chunk
parse_line_skips_undecodable(raw) ==
  IF Len(raw) = 0 THEN [kind |-> "skip", chunk |-> NoChunk]
  ELSE LET line == strip(raw) IN
    IF ~startswith_data(line) THEN [kind |-> "skip", chunk |-> NoChunk]
    ELSE LET data_part == remove_prefix(line) IN
      IF strip(data_part) = <<DONE>> THEN [kind |-> "sentinel", chunk |-> NoChunk]
      ELSE LET chunk_data == json_loads(data_part) IN
        IF ~chunk_data.ok THEN [kind |-> "skip", chunk |-> NoChunk]
        ELSE LET made == ChatCompletionChunk(chunk_data.v) IN
          IF made.ok THEN [kind |-> "yield", chunk |-> made.chunk]
          ELSE [kind |-> "skip", chunk |-> NoChunk]

\* what one line does: skip | sentinel | yield | raise
parse_line(raw) ==
  IF Len(raw) = 0 THEN [kind |-> "skip", chunk |-> NoChunk]
  ELSE LET line == strip(raw) IN
    IF ~startswith_data(line) THEN [kind |-> "skip", chunk |-> NoChunk]
    ELSE LET data_part == remove_prefix(line) IN
      IF strip(data_part) = <<DONE>> THEN [kind |-> "sentinel", chunk |-> NoChunk]
      ELSE LET chunk_data == json_loads(data_part) IN
        IF ~chunk_data.ok THEN [kind |-> "skip", chunk |-> NoChunk]
        ELSE LET made == ChatCompletionChunk(chunk_data.v) IN
          IF made.ok THEN [kind |-> "yield", chunk |-> made.chunk]
          ELSE [kind |-> "raise", chunk |-> NoChunk]

\* no I/O fault: the line source never raises
NoFault == {}

RECURSIVE run_generator_swallows_fault(_, _, _)
\* a variant that takes an exception of the line source for its end
run_generator_swallows_fault(lines, fault, c) ==
  IF c \in fault THEN [kind |-> "exhausted", cursor |-> c, chunk |-> NoChunk]
  ELSE IF c >= Len(lines) THEN [kind |-> "exhausted", cursor |-> c, chunk |-> NoChunk]
  ELSE LET step == parse_line(lines[c + 1]) IN
    IF step.kind = "skip" THEN run_generator_swallows_fault(lines, fault, c + 1)
    ELSE [kind |-> step.kind, cursor |-> c + 1, chunk |-> step.chunk]

RECURSIVE run_generator(_, _, _)
\* lines: the source; fault: the read positions (lines already delivered)
\* at which the source raises; c: the lines already read.  The outcome of
\* the run and the lines read at its end.
run_generator(lines, fault, c) ==
  IF c \in fault THEN [kind |-> "raise", cursor |-> c, chunk |-> NoChunk]
  ELSE IF c >= Len(lines) THEN [kind |-> "exhausted", cursor |-> c, chunk |-> NoChunk]
  ELSE LET step == parse_line(lines[c + 1]) IN
    IF step.kind = "skip" THEN run_generator(lines, fault, c + 1)
    ELSE [kind |-> step.kind, cursor |-> c + 1, chunk |-> step.chunk]

(***************************************************************************)
(* State.                                                                  *)
(***************************************************************************)
VARIABLES
  phase,             \* idle | done | raw | session
  outcome,           \* what _make_request raised or returned
  response,          \* the transport's response object
  cursor,            \* lines read from the response's body so far
  content_consumed,  \* the response's body was read to its end
  closeCalls,        \* calls of response.close()
  iterator,          \* self._iterator: None | created | suspended | finished
  garbage,           \* suspended generators dropped and not yet finalized
  consumer,          \* holding | gone: the consumer's reference to the session
  iters,             \* calls of __iter__
  reads,             \* calls of response.iter_lines()
  last,              \* what the consumer's last operation gave
  delivered,         \* the chunks yielded so far, in order
  errors,            \* FastRouterErrors raised by pulls so far
  ended,             \* how the sequence first ended: no | sentinel | exhausted | error
  client,            \* the FastRouter object, and what it was constructed from
  call,              \* the running call of create or health, with its request
  result,            \* what the last call gave its caller
  invocations,       \* calls of create and health so far
  issued             \* calls of requests.request so far

vars ==
  <<phase, outcome, response, cursor, content_consumed, closeCalls, iterator,
    garbage, consumer, iters, reads, last, delivered, errors, ended,
    client, call, result, invocations, issued>>

clientVars == <<client, call, result, invocations, issued>>

requestVars ==
  <<phase, outcome, response, cursor, content_consumed, closeCalls, iterator,
    garbage, consumer, iters, reads, last, delivered, errors, ended>>

sessionVars ==
  <<cursor, content_consumed, closeCalls, iterator, garbage, consumer, iters,
    reads, last, delivered, errors, ended>>

NoResponse == [status_code |-> 0]
NoClient == [state |-> "none"]
NoCall == [op |-> "none"]
NoResult == [kind |-> "none"]

Init ==
  /\ phase = "idle"
  /\ outcome = [kind |-> "none"]
  /\ response = NoResponse
  /\ cursor = 0
  /\ content_consumed = FALSE
  /\ closeCalls = 0
  /\ iterator = "None"
  /\ garbage = 0
  /\ consumer = "holding"
  /\ iters = 0
  /\ reads = 0
  /\ last = [op |-> "none", res |-> "none", chunk |-> NoChunk]
  /\ delivered = <<>>
  /\ errors = 0
  /\ ended = "no"
  /\ client = NoClient
  /\ call = NoCall
  /\ result = NoResult
  /\ invocations = 0
  /\ issued = 0

(***************************************************************************)
(* FastRouter._make_request: one request, answered with a buffered body    *)
(* (or not answered at all), or, for a streaming request with a status     *)
(* below 400, with a body that is read line by line.                       *)
(***************************************************************************)
\* The body of the answer was read to its end when _make_request is left: the
\* transport reads it before it returns when the request is not streamed,
\* and response.json() and response.text read it; for a streamed answer
\* with status 401 nothing reads it.
body_read(status_code, stream) == ~stream \/ status_code # 401

BufferedRequest ==
  /\ phase = "idle"
  /\ \E fault \in {"none"} \cup TransportFaults, status_code \in Statuses,
        text \in Bodies, stream \in BOOLEAN :
       /\ ~(fault = "none" /\ stream /\ status_code < 400)
       /\ outcome' = make_request(fault, status_code, text, stream)
       /\ response' = IF fault = "none"
                      THEN [status_code |-> status_code, text |-> text,
                            stream |-> stream, close |-> TRUE]
                      ELSE NoResponse
       /\ content_consumed' = (fault = "none" /\ body_read(status_code, stream))
  /\ phase' = "done"
  /\ UNCHANGED <<cursor, closeCalls, iterator, garbage, consumer, iters, reads,
                 last, delivered, errors, ended>>
  /\ UNCHANGED clientVars

StreamedRequest ==
  /\ phase = "idle"
  /\ \E status_code \in StreamedStatuses, lines \in Sources \cup SpecialSources :
       \E fault \in {NoFault} \cup {{k} : k \in 0..Len(lines)} :
         /\ outcome' = make_request("none", status_code, "", TRUE)
         /\ response' = [status_code |-> status_code, lines |-> lines,
                         fault |-> fault, stream |-> TRUE, close |-> TRUE]
  /\ phase' = IF outcome'.kind = "response" THEN "raw" ELSE "done"
  /\ UNCHANGED sessionVars
  /\ UNCHANGED clientVars

\* StreamingChatCompletion(response, client), on the raw response returned
NewSession ==
  /\ phase = "raw"
  /\ phase' = "session"
  /\ iterator' = "None"
  /\ UNCHANGED <<outcome, response, cursor, content_consumed, closeCalls, garbage,
                 consumer, iters, reads, last, delivered, errors, ended>>
  /\ UNCHANGED clientVars

(***************************************************************************)
(* StreamingChatCompletion                                                 *)
(***************************************************************************)
\* hasattr(self.response, 'close')
hasattr_close(r) == "close" \in DOMAIN r

\* the finally clause of _parse_stream: the calls of close() after it
finally_close(r, n) == IF hasattr_close(r) THEN n + 1 ELSE n

\* __iter__: a new generator replaces self._iterator; the old one is dropped
Iter ==
  /\ phase = "session"
  /\ consumer = "holding"
  /\ iters < MaxIters
  /\ iters' = iters + 1
  /\ garbage' = IF iterator = "suspended" THEN garbage + 1 ELSE garbage
  /\ iterator' = "created"
  /\ last' = [op |-> "iter", res |-> "self", chunk |-> NoChunk]
  /\ UNCHANGED <<phase, outcome, response, cursor, content_consumed, closeCalls,
                 consumer, reads, delivered, errors, ended>>
  /\ UNCHANGED clientVars

\* What a read of the body gives once the response is closed: the transport
\* either reports the end of the body or raises.
ClosedReads == {"empty", "raise"}

\* next(self._iterator) for a generator in state gen: what the generator does
\* until it yields, ends or raises
next_generator(gen, r, c, consumed, closed, closedRead) ==
  IF gen = "finished" THEN [kind |-> "stop", cursor |-> c, chunk |-> NoChunk]
  ELSE IF gen = "created" /\ consumed
  THEN [kind |-> "raise", cursor |-> c, chunk |-> NoChunk]
  ELSE IF closed
  THEN [kind |-> IF closedRead = "empty" THEN "exhausted" ELSE "raise",
        cursor |-> c, chunk |-> NoChunk]
  ELSE run_generator(r.lines, r.fault, c)

\* the state of the generator after the run
generator_after(kind) == IF kind = "yield" THEN "suspended" ELSE "finished"

\* what __next__ gives its caller
next_result(kind) ==
  CASE kind = "yield" -> "chunk"
    [] kind = "raise" -> "FastRouterError"
    [] OTHER -> "StopIteration"

\* the generator left its try block (end of loop, break or exception)
Leaves(kind) == kind \in {"sentinel", "exhausted", "raise"}

\* __next__: creates the generator when there is none, then runs it
PullNext ==
  /\ phase = "session"
  /\ consumer = "holding"
  /\ \E closedRead \in ClosedReads :
       LET gen == IF iterator = "None" THEN "created" ELSE iterator
           g == next_generator(gen, response, cursor, content_consumed,
                               closeCalls > 0, closedRead)
       IN /\ iterator' = generator_after(g.kind)
          /\ cursor' = g.cursor
          /\ reads' = IF gen = "created" THEN reads + 1 ELSE reads
          /\ content_consumed' = (content_consumed \/ g.kind = "exhausted")
          /\ closeCalls' = IF Leaves(g.kind) THEN finally_close(response, closeCalls)
                           ELSE closeCalls
          /\ last' = [op |-> "next", res |-> next_result(g.kind), chunk |-> g.chunk]
          /\ delivered' = IF g.kind = "yield" THEN Append(delivered, g.chunk)
                          ELSE delivered
          /\ errors' = IF g.kind = "raise" THEN errors + 1 ELSE errors
          /\ ended' = IF ended = "no" /\ Leaves(g.kind)
                      THEN (IF g.kind = "raise" THEN "error" ELSE g.kind)
                      ELSE ended
  /\ UNCHANGED <<phase, outcome, response, garbage, consumer, iters>>
  /\ UNCHANGED clientVars

\* The consumer stops and drops the session; a suspended generator of it is
\* left to the runtime.
Abandon ==
  /\ phase = "session"
  /\ consumer = "holding"
  /\ consumer' = "gone"
  /\ garbage' = IF iterator = "suspended" THEN garbage + 1 ELSE garbage
  /\ iterator' = IF iterator = "suspended" THEN "None" ELSE iterator
  /\ UNCHANGED <<phase, outcome, response, cursor, content_consumed, closeCalls,
                 iters, reads, last, delivered, errors, ended>>
  /\ UNCHANGED clientVars

\* The runtime finalizes a dropped, suspended generator: GeneratorExit is
\* raised at its yield, `except Exception` does not catch it, and the
\* finally clause runs.
Finalize ==
  /\ garbage > 0
  /\ garbage' = garbage - 1
  /\ closeCalls' = finally_close(response, closeCalls)
  /\ UNCHANGED <<phase, outcome, response, cursor, content_consumed, iterator,
                 consumer, iters, reads, last, delivered, errors, ended>>
  /\ UNCHANGED clientVars

Next ==
  \/ BufferedRequest
  \/ StreamedRequest
  \/ NewSession
  \/ Iter
  \/ PullNext
  \/ Abandon
  \/ Finalize

Spec == Init /\ [][Next]_vars

(***************************************************************************)
(* The client: FastRouter(api_key), client.chat.completions.create(...)    *)
(* and client.health().  A call builds its request and hands it to the     *)
(* transport; the call ends when the transport answers or fails.           *)
(***************************************************************************)
\* FastRouter(api_key=argument), with FASTROUTER_API_KEY as the environment has it
NewClient ==
  /\ client = NoClient
  /\ \E argument \in KeyArguments, environment \in Environments :
       client' = [state |-> "ready", argument |-> argument,
                  environment |-> environment,
                  api_key |-> resolve_api_key(argument, environment)]
  /\ UNCHANGED <<call, result, invocations, issued>>
  /\ UNCHANGED requestVars

\* create(model, messages, ...), up to the requests.request call
Create ==
  /\ client.state = "ready"
  /\ call = NoCall
  /\ invocations < MaxCalls
  /\ \E supplied \in SUBSET OptionalNames, stream \in BOOLEAN, kwargs \in Kwargs :
       LET args == Arguments(supplied, stream)
           payload == build_payload(args, kwargs)
       IN call' = [op |-> "create", args |-> args, kwargs |-> kwargs,
                   payload |-> payload,
                   request |-> create_request(client.api_key, payload)]
  /\ result' = NoResult
  /\ invocations' = invocations + 1
  /\ issued' = issued + 1
  /\ UNCHANGED client
  /\ UNCHANGED requestVars

\* health(), up to the requests.request call
Health ==
  /\ client.state = "ready"
  /\ call = NoCall
  /\ invocations < MaxCalls
  /\ call' = [op |-> "health", request |-> health_request(client.api_key)]
  /\ result' = NoResult
  /\ invocations' = invocations + 1
  /\ issued' = issued + 1
  /\ UNCHANGED client
  /\ UNCHANGED requestVars

\* what the transport does with a request: it fails, or it answers with a
\* status and a body
Answers ==
  {[fault |-> f, status_code |-> NoResponse.status_code, text |-> ""] :
     f \in TransportFaults}
    \cup {[fault |-> "none", status_code |-> s, text |-> t] :
            s \in Statuses, t \in Bodies}

\* the transport answers the request, or fails, and the call ends
TransportAnswers ==
  /\ call # NoCall
  /\ \E a \in Answers :
       IF retry_after(a.fault, a.status_code)
       THEN /\ issued' = issued + 1
            /\ UNCHANGED <<call, result>>
       ELSE /\ result' = IF call.op = "create"
                         THEN create_result(call.request, a.fault, a.status_code, a.text)
                         ELSE health_result(call.request, a.fault, a.status_code, a.text)
            /\ call' = NoCall
            /\ UNCHANGED issued
  /\ UNCHANGED <<client, invocations>>
  /\ UNCHANGED requestVars

ClientNext ==
  \/ NewClient
  \/ Create
  \/ Health
  \/ TransportAnswers

ClientSpec == Init /\ [][ClientNext]_vars

TypeOK ==
  /\ phase \in {"idle", "done", "raw", "session"}
  /\ iterator \in {"None", "created", "suspended", "finished"}
  /\ cursor \in 0..MaxLines
  /\ garbage \in 0..(MaxIters + 1)

(***************************************************************************)
(* Properties of _make_request.                                            *)
(***************************************************************************)
\* the transport answered with a buffered body
Answered == phase = "done" /\ "text" \in DOMAIN response

\* the body of the answer is a JSON object
BodyIsObject == response.text \notin NotJson /\ IsDict(response_json(response.text).v)

\* the body of the answer is a JSON object with a top-level `error` field
BodyHasError == BodyIsObject /\ HasKey(response_json(response.text).v, "error")

\* the `error` field of the body
BodyError == response_json(response.text).v.d["error"]

\* the JSON values that Python takes as false
Falsy == {JNum(0), JBool(FALSE), JNone, JList(<<>>)}

\* the message the claims give for an `error` value, every value that is
\* neither an object nor a string being stringified
StringifiedMessage(e) ==
  CASE e.t = "dict" -> (IF "message" \in DOMAIN e.d THEN e.d["message"] ELSE UnknownAPIError)
    [] e.t = "str" -> e
    [] OTHER -> JStr(PyStr(e))

\* the message of the code: a falsy value that is neither an object nor a
\* string gives 'Unknown API error'
AmendedMessage(e) == IF e \in Falsy THEN UnknownAPIError ELSE StringifiedMessage(e)

\* C1: every answer with status 401, whatever its body and whether or not
\* streaming was requested, makes the request raise AuthenticationError with
\* its fixed message, and nothing else.
C1_Auth401 ==
  (Answered /\ response.status_code = 401)
    => outcome = [kind |-> "AuthenticationError", message |-> AuthenticationFailed]

\* a streaming request answered 401 with a body that reports an error
C1_Witness ==
  /\ Answered
  /\ response.status_code = 401
  /\ response.stream
  /\ response.text = "{\"error\": {\"message\": \"Bad request\"}}"
  /\ outcome.kind = "AuthenticationError"

\* a non-streaming answer with status < 400 whose body is a JSON object with
\* an `error` field
EmbeddedError ==
  Answered /\ response.status_code < 400 /\ ~response.stream /\ BodyHasError

\* C2 as stated: such an answer raises APIError with status code 200, the
\* message being the stringification of every `error` value that is neither
\* an object nor a string.
C2_Original ==
  EmbeddedError =>
    outcome = [kind |-> "APIError", message |-> StringifiedMessage(BodyError),
               status_code |-> 200]

\* C2 amended: such an answer raises APIError with status code 200 and never
\* returns the body; the message is the `message` sub-field of an `error`
\* object ('Unknown API error' when it has none), the string itself, the
\* stringification of any other truthy value, and 'Unknown API error' for any
\* other falsy value (0, false, null, []).
C2_Amended ==
  EmbeddedError =>
    outcome = [kind |-> "APIError", message |-> AmendedMessage(BodyError),
               status_code |-> 200]

\* status 399, body {"error": 0}: APIError(200) with 'Unknown API error'
C2_Witness ==
  /\ EmbeddedError
  /\ response.status_code = 399
  /\ BodyError = JNum(0)
  /\ outcome.kind = "APIError"
  /\ outcome.status_code = 200
  /\ outcome.message = UnknownAPIError

\* an answer with status >= 400 other than 401
ErrorStatus == Answered /\ response.status_code >= 400 /\ response.status_code # 401

\* C3 as stated: such an answer raises APIError with the answer's status; for
\* a JSON object body with an `error` field the message is the `message`
\* sub-field, the string, or the stringified value (also of a falsy one).
C3_Original ==
  ErrorStatus =>
    /\ outcome.kind = "APIError"
    /\ outcome.status_code = response.status_code
    /\ BodyHasError => outcome.message = StringifiedMessage(BodyError)

\* C3 amended: as stated, but an `error` value that is neither an object nor
\* a string gives its stringification only when it is truthy, and 'Unknown
\* API error' when it is falsy (0, false, null, []).
C3_Amended ==
  ErrorStatus =>
    /\ outcome.kind = "APIError"
    /\ outcome.status_code = response.status_code
    /\ BodyHasError => outcome.message = AmendedMessage(BodyError)

\* status 402, body {"error": 503}: APIError(402) with message "503"
C3_Witness ==
  /\ ErrorStatus
  /\ response.status_code = 402
  /\ BodyHasError
  /\ BodyError = JNum(503)
  /\ outcome = [kind |-> "APIError", message |-> JStr("503"), status_code |-> 402]

\* the messages that combine the status and the body text
FallbackMessages(status_code, text) ==
  {JStr("HTTP " \o IntStr(status_code) \o ": " \o text),
   JStr("HTTP " \o IntStr(status_code) \o ": " \o text
          \o " (Parse error: " \o ExpectingValue \o ")")}

\* C4 as stated: for a status >= 400 other than 401, a body that is not JSON
\* and a JSON object body without an `error` field both give the fallback
\* message made of the status and the body text.
C4_Original ==
  (ErrorStatus /\ (response.text \in NotJson \/ (BodyIsObject /\ ~BodyHasError)))
    => (outcome.kind = "APIError"
        /\ outcome.message \in FallbackMessages(response.status_code, response.text))

\* C4 amended: a body that is not JSON gives the message
\* "HTTP <status>: <body> (Parse error: <parser's message>)"; a JSON object
\* body without an `error` field gives 'Unknown API error'.
C4_Amended ==
  ErrorStatus =>
    /\ response.text \in NotJson =>
         outcome = [kind |-> "APIError",
                    message |-> JStr("HTTP " \o IntStr(response.status_code) \o ": "
                                       \o response.text \o " (Parse error: "
                                       \o ExpectingValue \o ")"),
                    status_code |-> response.status_code]
    /\ (BodyIsObject /\ ~BodyHasError) =>
         outcome = [kind |-> "APIError", message |-> UnknownAPIError,
                    status_code |-> response.status_code]

\* status 500, body {"status": "healthy"}: 'Unknown API error'
C4_Witness ==
  /\ ErrorStatus
  /\ response.status_code = 500
  /\ response.text = "{\"status\": \"healthy\"}"
  /\ outcome.kind = "APIError"
  /\ outcome.message = UnknownAPIError

(***************************************************************************)
(* Properties of the streaming session.  What each line of the model is    *)
(* expected to do is written down line by line, apart from the decoder.    *)
(***************************************************************************)
HiChunk ==
  [data |-> Dict1("choices", JList(<<Dict1("delta", Dict1("content", JStr("Hi")))>>)),
   choices |-> <<[index |-> JNum(0),
                  delta |-> [role |-> JNone, content |-> JStr("Hi")],
                  finish_reason |-> JNone]>>]

EndChunk == [data |-> Dict2("id", JStr("c2"), "choices", JList(<<>>)), choices |-> <<>>]

\* the chunk of SecondLine: a blank first choice, a second choice with "B"
SecondChunk ==
  [data |-> Dict1("choices",
              JList(<<Dict1("delta", Dict1("content", JStr("  "))),
                      Dict1("delta", Dict1("content", JStr("B")))>>)),
   choices |-> <<[index |-> JNum(0),
                  delta |-> [role |-> JNone, content |-> JStr("  ")],
                  finish_reason |-> JNone],
                 [index |-> JNum(0),
                  delta |-> [role |-> JNone, content |-> JStr("B")],
                  finish_reason |-> JNone]>>]

\* the chunk of NullContentLine
NullContentChunk ==
  [data |-> Dict1("choices", JList(<<Dict1("delta", Dict1("content", JNone))>>)),
   choices |-> <<[index |-> JNum(0),
                  delta |-> [role |-> JNone, content |-> JNone],
                  finish_reason |-> JNone]>>]

\* the chunk of ErrorEventLine: no choices
ErrorChunk == [data |-> Dict1("error", JStr("oops")), choices |-> <<>>]

\* chunk: a `data: ` line with a JSON object that decodes into a chunk;
\* sentinel: a `data: ` line whose trimmed payload is [DONE];
\* undecodable: a `data: ` line with valid JSON that is no object;
\* nothing: a blank line, a line without the prefix, a malformed payload.
Expect(line) ==
  CASE line = HiLine -> [kind |-> "chunk", chunk |-> HiChunk]
    [] line = EndLine -> [kind |-> "chunk", chunk |-> EndChunk]
    [] line = SentinelLine -> [kind |-> "sentinel", chunk |-> NoChunk]
    [] line = NumberLine -> [kind |-> "undecodable", chunk |-> NoChunk]
    [] line = SecondLine -> [kind |-> "chunk", chunk |-> SecondChunk]
    [] line = NullContentLine -> [kind |-> "chunk", chunk |-> NullContentChunk]
    [] line = ErrorEventLine -> [kind |-> "chunk", chunk |-> ErrorChunk]
    [] line \in {StringLine, ArrayLine, TrueLine, NullLine} ->
         [kind |-> "undecodable", chunk |-> NoChunk]
    [] OTHER -> [kind |-> "nothing", chunk |-> NoChunk]

IsSentinel(line) == Expect(line).kind = "sentinel"

\* the `data: ` lines whose payload is valid JSON and not the sentinel
ValidData(line) == Expect(line).kind \in {"chunk", "undecodable"}

\* the lines before the first sentinel
FirstSentinel(lines) ==
  IF \E k \in 1..Len(lines) : IsSentinel(lines[k])
  THEN CHOOSE k \in 1..Len(lines) :
         IsSentinel(lines[k]) /\ \A j \in 1..(k - 1) : ~IsSentinel(lines[j])
  ELSE Len(lines) + 1

RECURSIVE Expected(_)
\* the chunks a full iteration over lines yields, how it ends, and the lines
\* it reads: it stops at the first sentinel and at the first undecodable line
Expected(lines) ==
  IF Len(lines) = 0 THEN [chunks |-> <<>>, end |-> "exhausted", read |-> 0]
  ELSE LET e == Expect(Head(lines)) IN
    IF e.kind = "sentinel" THEN [chunks |-> <<>>, end |-> "sentinel", read |-> 1]
    ELSE IF e.kind = "undecodable" THEN [chunks |-> <<>>, end |-> "error", read |-> 1]
    ELSE LET r == Expected(Tail(lines)) IN
      [chunks |-> (IF e.kind = "chunk" THEN <<e.chunk>> ELSE <<>>) \o r.chunks,
       end |-> r.end, read |-> r.read + 1]

InSession == phase = "session"

\* C5: the pull that reads a `data: ` line whose trimmed payload is [DONE]
\* ends the sequence: it yields no chunk and signals end-of-sequence, and no
\* line after the sentinel is ever read; one valid data line followed by the
\* sentinel gives exactly one chunk (content "Hi") and then the end.
C5_Sentinel ==
  [][InSession' =>
       /\ \A k \in 1..cursor' : IsSentinel(response'.lines[k]) => k = cursor'
       /\ (cursor' > cursor /\ IsSentinel(response'.lines[cursor'])) =>
            /\ last' = [op |-> "next", res |-> "StopIteration", chunk |-> NoChunk]
            /\ delivered' = delivered
            /\ iterator' = "finished"
            /\ ended' # "no"
       /\ (response'.lines = <<HiLine, SentinelLine>> /\ response'.fault = NoFault
             /\ cursor' = 2) =>
            (delivered' = <<HiChunk>> /\ ended' = "sentinel")]_vars

\* Hi, sentinel, another chunk line: one chunk, the end, the third line unread
C5_Witness ==
  /\ InSession
  /\ response.lines = <<HiLine, SentinelLine, EndLine>>
  /\ cursor = 2
  /\ last.res = "StopIteration"
  /\ delivered = <<HiChunk>>
  /\ iterator = "finished"

\* one full iteration: one generator read the body, from its start to the
\* generator's end, and the line source raised nothing
FullIteration ==
  InSession /\ response.fault = NoFault /\ reads = 1 /\ iterator = "finished"

\* C6 as stated: a full iteration yields one chunk for each `data: ` line
\* before the first sentinel whose payload is valid JSON and not the sentinel.
C6_Original ==
  FullIteration =>
    Len(delivered) =
      Cardinality({k \in 1..(FirstSentinel(response.lines) - 1) :
                     ValidData(response.lines[k])})

\* C6 amended: a full iteration yields, in the order received, one chunk for
\* each `data: ` line whose payload decodes into a chunk and that precedes the
\* first sentinel and the first `data: ` line whose payload is valid JSON but
\* no object; at such a line the pull raises FastRouterError and the sequence
\* ends.  Blank lines, lines without the prefix and malformed payloads yield
\* nothing and do not end the sequence.
C6_Amended ==
  FullIteration =>
    LET e == Expected(response.lines) IN
    /\ delivered = e.chunks
    /\ ended = e.end
    /\ cursor = e.read
    /\ errors = (IF e.end = "error" THEN 1 ELSE 0)

\* a malformed line between two valid chunks: both chunks, in order
C6_Witness ==
  /\ FullIteration
  /\ response.lines = <<HiLine, MalformedLine, EndLine>>
  /\ delivered = <<HiChunk, EndChunk>>
  /\ ended = "exhausted"

\* C7: close() of the response is invoked at most once over the session's
\* lifetime, and exactly once as soon as the sequence has ended.
C7_ClosedOnce ==
  InSession => (closeCalls <= 1 /\ (ended # "no" => closeCalls = 1))

\* C8: once the consumer has stopped pulling and dropped the session, and the
\* runtime has finalized what was left, the response has been closed.
C8_ReleasedOnAbandon ==
  (InSession /\ consumer = "gone" /\ garbage = 0) => closeCalls >= 1

\* C9: once the sequence has ended, every later pull, also after a fresh
\* __iter__, signals end-of-sequence, yields nothing, raises nothing and
\* reads nothing further from the response.
C9_EndIsTerminal ==
  [][(InSession /\ ended # "no" /\ PullNext) =>
       /\ last'.res = "StopIteration"
       /\ delivered' = delivered
       /\ errors' = errors
       /\ reads' = reads
       /\ cursor' = cursor]_vars

\* the pull about to run ends at the exception of the line source: the
\* response is open, and only lines that yield nothing lie between the read
\* position and the place of the fault
FaultAhead ==
  /\ InSession
  /\ consumer = "holding"
  /\ iterator # "finished"
  /\ closeCalls = 0
  /\ \E k \in response.fault :
       k >= cursor /\ \A j \in (cursor + 1)..k : Expect(response.lines[j]).kind = "nothing"

\* the generator of the session ended at the exception of the line source
Faulted ==
  InSession /\ iterator = "finished" /\ ended = "error" /\ cursor \in response.fault

\* C10: when the line source raises during a pull, the chunks decoded before
\* have been delivered in order, that pull raises one FastRouterError and the
\* response is closed; every later pull of that iteration signals
\* end-of-sequence and raises nothing.
C10_IOFault ==
  [][/\ (FaultAhead /\ PullNext) =>
          /\ last' = [op |-> "next", res |-> "FastRouterError", chunk |-> NoChunk]
          /\ errors' = errors + 1
          /\ closeCalls' = 1
          /\ delivered' = delivered
          /\ delivered' = Expected(SubSeq(response.lines, 1, cursor')).chunks
          /\ Faulted'
     /\ (Faulted /\ PullNext) =>
          /\ last' = [op |-> "next", res |-> "StopIteration", chunk |-> NoChunk]
          /\ errors' = errors
          /\ closeCalls' = closeCalls
          /\ Faulted']_vars

\* two chunks, then the fault, then a further pull
C10_Witness ==
  /\ Faulted
  /\ response.lines = <<HiLine, EndLine, HiLine>>
  /\ response.fault = {2}
  /\ delivered = <<HiChunk, EndChunk>>
  /\ errors = 1
  /\ closeCalls = 1
  /\ last.res = "StopIteration"

(***************************************************************************)
(* Properties of Completions.create.                                       *)
(***************************************************************************)
\* a call of create is running: its payload is built and its request issued
Creating == call.op = "create"

\* the optional parameters the caller supplied
SuppliedOptionals == {k \in OptionalNames : call.args[k] # JNone}

\* C11: the keys of the built payload are model, messages and stream, the
\* optional parameters the caller supplied, and nothing else (but the extra
\* fields of the call); a supplied parameter has the caller's value, also a
\* falsy one, and stream is always there, false by default.
C11_PayloadKeys ==
  Creating =>
    /\ DOMAIN call.payload.d \ DOMAIN call.kwargs = RequiredNames \cup SuppliedOptionals
    /\ \A k \in RequiredNames \cup SuppliedOptionals : call.payload.d[k] = call.args[k]
    /\ \A k \in OptionalNames \ SuppliedOptionals : ~HasKey(call.payload, k)
    /\ call.payload.d["stream"] \in {JBool(TRUE), JBool(FALSE)}

\* temperature=0.0 and stop=[] supplied, nothing else: both are in the
\* payload, the five other optionals are not, stream is false
C11_Witness ==
  /\ Creating
  /\ call.kwargs = NoKwargs
  /\ SuppliedOptionals = {"temperature", "stop"}
  /\ DOMAIN call.payload.d = RequiredNames \cup {"temperature", "stop"}
  /\ call.payload.d["temperature"] = JNum(0)
  /\ call.payload.d["stop"] = JList(<<>>)
  /\ call.payload.d["stream"] = JBool(FALSE)

\* what a call of create raises instead of returning
Raised ==
  {"AuthenticationError", "APIError", "FastRouterError", "TypeError", "AttributeError"}

\* the payload's stream value is true
StreamIsTrue(payload) == HasKey(payload, "stream") /\ payload.d["stream"] = JBool(TRUE)

DeliveredChunks == {delivered[i] : i \in 1..Len(delivered)}

\* C13 as stated: has_content is true exactly when some choice of the chunk,
\* at any position, has a delta content that is not blank.
C13_Original ==
  \A c \in DeliveredChunks :
    has_content(c) <=> (\E i \in 1..Len(c.choices) : HasText(c.choices[i]))

\* C13 amended: has_content is true exactly when the chunk has a choice and
\* the delta content of its first choice is a string that is not blank;
\* content is the delta content of the first choice, untrimmed, when
\* has_content is true and the empty string otherwise.
C13_Amended ==
  \A c \in DeliveredChunks :
    /\ has_content(c) <=> (Len(c.choices) > 0 /\ HasText(c.choices[1]))
    /\ content(c) = (IF Len(c.choices) > 0 /\ HasText(c.choices[1])
                     THEN c.choices[1].delta.content ELSE JStr(""))
    /\ (c = HiChunk) => (has_content(c) /\ content(c) = JStr("Hi"))
    /\ (c \in {EndChunk, SecondChunk, NullContentChunk, ErrorChunk}) =>
         (~has_content(c) /\ content(c) = JStr(""))

\* a chunk with content and a chunk whose only content is in its second
\* choice were yielded
C13_Witness ==
  /\ InSession
  /\ delivered = <<HiChunk, SecondChunk>>
  /\ has_content(delivered[1])
  /\ ~has_content(delivered[2])
  /\ HasText(delivered[2].choices[2])

(***************************************************************************)
(* Properties of the results of create and health.                         *)
(***************************************************************************)
\* the choices array of a payload: empty when the field is absent or null
PayloadChoices(data) ==
  LET got == Get(data, "choices", JList(<<>>)) IN
  IF IsList(got) THEN got.l ELSE <<>>

\* C14: a call of create that gets a successful non-streaming payload returns
\* a ChatCompletion (its constructor raises nothing); the choices of the
\* result are as many as the elements of the payload's choices array, the
\* i-th decoded from the i-th element, and there are none when the payload
\* has no choices field or has it set to null.
C14_Choices ==
  /\ result.kind # "TypeError"
  /\ result.kind = "ChatCompletion" =>
       /\ Len(result.choices) = Len(PayloadChoices(result.data))
       /\ \A i \in 1..Len(result.choices) :
            LET element == PayloadChoices(result.data)[i] IN
            /\ result.choices[i].index = Get(element, "index", JNum(0))
            /\ result.choices[i].message.content =
                 Get(Get(element, "message", EmptyDict), "content", JStr(""))

(***************************************************************************)
(* Properties of the requests of the client.                               *)
(***************************************************************************)
\* a call of create or health is running: its request is issued
Calling == call # NoCall

\* no credential: none given, or an empty one
NoCredential == {JNone, JStr("")}

\* the credential the client was constructed with: the argument, or, when
\* there is none, that of the environment
Credential ==
  IF client.argument \notin NoCredential THEN client.argument ELSE client.environment

\* C15 as stated: every request carries the Content-Type header and an
\* Authorization header, whatever the client was constructed from.
C15_Original ==
  Calling =>
    /\ DOMAIN call.request.headers = {"Content-Type", "Authorization"}
    /\ call.request.headers["Content-Type"] = "application/json"

\* C15 amended: every request, of create and of health, carries
\* Content-Type: application/json; it carries Authorization: Bearer
\* <credential> when the client has a credential (the constructor's argument
\* or, when that is absent or empty, that of the environment), and no
\* Authorization header at all when it has none.
C15_Amended ==
  Calling =>
    /\ call.request.headers["Content-Type"] = "application/json"
    /\ IF Credential \in NoCredential
       THEN DOMAIN call.request.headers = {"Content-Type"}
       ELSE /\ DOMAIN call.request.headers = {"Content-Type", "Authorization"}
            /\ call.request.headers["Authorization"] = "Bearer " \o Credential.s

\* a health check of a client constructed with no credential argument and
\* with none in the environment: its request has the Content-Type header only
C15_Witness ==
  /\ call.op = "health"
  /\ client.argument = JNone
  /\ client.environment = JNone
  /\ client.api_key = JNone
  /\ call.request.headers = ContentTypeOnly

\* C16: the calls of requests.request are as many as the calls of create and
\* health, while a call runs and after it ended, whatever it ended with: a
\* call issues its one request and none after the answer or the failure.
C16_OneRequestEach ==
  [][/\ issued' = invocations'
     /\ (~Calling /\ Calling') => issued' = issued + 1
     /\ Calling => issued' = issued]_vars

\* two calls, the second of which timed out: two requests
C16_Witness ==
  /\ invocations = 2
  /\ issued = 2
  /\ ~Calling
  /\ result = FastRouterError(JStr("Request timed out"))

(***************************************************************************)
(* Properties of the decoding of a buffered body.                          *)
(***************************************************************************)
\* a non-streaming request was answered with a status below 400 and a body
\* that is not JSON
PlainTextSuccess ==
  /\ Answered
  /\ ~response.stream
  /\ response.status_code < 400
  /\ response.text \in NotJson

\* C17 as stated: the body that is not JSON is wrapped as the object with
\* the single key `content`.
C17_Original ==
  PlainTextSuccess => outcome = Return(Dict1("content", JStr(response.text)))

\* C17 amended: the body that is not JSON is wrapped as an object with
\* exactly two keys: `content`, the raw body text, and `parse_error`, the
\* message of the JSON parser.
C17_Amended ==
  PlainTextSuccess =>
    /\ outcome.kind = "return"
    /\ IsDict(outcome.data)
    /\ DOMAIN outcome.data.d = {"content", "parse_error"}
    /\ outcome.data.d["content"] = JStr(response.text)
    /\ outcome.data.d["parse_error"] = JStr(ExpectingValue)

\* status 200 with the body "Bad Gateway"
C17_Witness ==
  /\ PlainTextSuccess
  /\ response.status_code = 200
  /\ response.text = "Bad Gateway"
  /\ outcome.kind = "return"
  /\ HasKey(outcome.data, "parse_error")

\* the dictionary _make_request returns for a body that is a JSON-encoded
\* bare string: the string under `data`
IsWrappedString(data) ==
  DOMAIN data.d = {"data"} /\ IsStr(data.d["data"])

\* C18: health issues one GET to /health, with no body and not streamed; the
\* status of the HealthResponse it returns is the body string itself when the
\* body is a bare string, JSON-encoded (which _make_request hands over under
\* `data`) or plain text (handed over under `content`), the body object's
\* status field when it has one, else its content field, else "Unknown".
C18_Health ==
  /\ call.op = "health" =>
       /\ call.request.method = "GET"
       /\ call.request.endpoint = "/health"
       /\ call.request.json = JNone
       /\ ~call.request.stream
  /\ result.kind = "HealthResponse" =>
       result.status =
         (IF IsWrappedString(result.data) THEN result.data.d["data"]
          ELSE Get(result.data, "status", Get(result.data, "content", Unknown)))

(***************************************************************************)
(* Properties of the streaming path.                                       *)
(***************************************************************************)
\* C19: a streamed answer with a status below 400 is returned as the raw
\* response whatever its lines are, and no line of it is read by anything
\* but a pull; a body that is one plain JSON object with an `error` field
\* gives an iteration that yields nothing and raises nothing, and a `data: `
\* event whose object has an `error` field is yielded as a chunk without
\* choices and without content; neither raises an APIError.
C19_BodyNotInspected ==
  [][/\ phase' \in {"raw", "session"} => outcome' = RawResponse
     /\ phase' = "raw" => (cursor' = 0 /\ reads' = 0 /\ closeCalls' = 0)
     /\ ~PullNext => (cursor' = cursor /\ reads' = reads /\ delivered' = delivered)
     /\ (FullIteration' /\ response'.lines = <<ErrorBodyLine>>) =>
          (delivered' = <<>> /\ errors' = 0 /\ ended' = "exhausted")
     /\ (FullIteration' /\ response'.lines = <<ErrorEventLine>>) =>
          /\ delivered' = <<ErrorChunk>>
          /\ Len(delivered'[1].choices) = 0
          /\ ~has_content(delivered'[1])
          /\ errors' = 0
          /\ ended' = "exhausted"]_vars

\* the full iteration over the one `data: ` event that reports an error
C19_Witness ==
  /\ FullIteration
  /\ outcome = RawResponse
  /\ response.status_code = 200
  /\ response.lines = <<ErrorEventLine>>
  /\ delivered = <<ErrorChunk>>
  /\ errors = 0

\* the `data: ` lines whose payload is valid JSON and no object: a number, a
\* string, an array, a boolean, null
NonObjectLines == {NumberLine, StringLine, ArrayLine, TrueLine, NullLine}

\* C20: the pull that reads a `data: ` line whose payload is valid JSON but
\* no object raises FastRouterError and yields nothing; the generator is
\* finished, the response is closed by that pull, and no line after that
\* line is ever read, so that the chunks of later lines are never yielded.
C20_NonObjectPayload ==
  [][InSession' =>
       /\ \A k \in 1..cursor' : response'.lines[k] \in NonObjectLines => k = cursor'
       /\ (cursor' > cursor /\ response'.lines[cursor'] \in NonObjectLines) =>
            /\ last' = [op |-> "next", res |-> "FastRouterError", chunk |-> NoChunk]
            /\ errors' = errors + 1
            /\ delivered' = delivered
            /\ iterator' = "finished"
            /\ closeCalls' = closeCalls + 1
            /\ ended' # "no"]_vars

\* null, then a valid chunk line: the pull raised, the response is closed,
\* the consumer pulled again and the chunk line stays unread
C20_Witness ==
  /\ InSession
  /\ response.lines = <<NullLine, HiLine>>
  /\ cursor = 1
  /\ errors = 1
  /\ closeCalls = 1
  /\ delivered = <<>>
  /\ iterator = "finished"
  /\ last = [op |-> "next", res |-> "StopIteration", chunk |-> NoChunk]

(***************************************************************************)
(* Properties of a failed streaming request.                               *)
(***************************************************************************)
\* a request issued in streaming mode was answered with a status >= 400 and
\* _make_request raised
FailedStreamingRequest ==
  /\ Answered
  /\ response.stream
  /\ response.status_code >= 400
  /\ outcome.kind \in {"AuthenticationError", "APIError"}

\* C21: when a request issued in streaming mode is answered with status 401
\* or another status >= 400, the response is released when the
\* AuthenticationError or APIError reaches the caller: response.close() was
\* called, or at the least the body was read to its end, which lets the
\* transport give the connection back.
C21_ReleasedOnFailure ==
  FailedStreamingRequest => (closeCalls > 0 \/ content_consumed)

====
